---- MODULE Spec2Model ----
(***************************************************************************)
(* A model of xcrun (src/xcode_tools/xcrun/xcrun.c): the developer-root    *)
(* lookup, the multicall dispatch, the option-driven flow of xcrun_main,   *)
(* the search path built by request_command, search_command, the child     *)
(* environment composed by call_command, and parse_target_triple.          *)
(*                                                                         *)
(* C strings whose inner structure the code inspects (basename, stripext,  *)
(* the first character, the digits of a version) are sequences of pieces:  *)
(* "/" and "." are pieces of their own, a version is one piece per         *)
(* character.  A pointer is such a sequence, and the null pointer is the   *)
(* empty sequence; the empty C string is <<"">>.  Strings built by sprintf *)
(* are TLA+ strings.                                                       *)
(***************************************************************************)
EXTENDS Integers, Sequences, FiniteSets, TLC

VARIABLES
    environ,        \* the inherited environment: variable name -> value
    cmdline,        \* the command line: program name and the options given
    fs,             \* the file system: directories, executables, ini files
    pc,             \* position of the program
    developer_dir, current_sdk, current_toolchain,
    explicit_sdk_mode, explicit_toolchain_mode,
    alternate_sdk_path, alternate_toolchain_path,
    ios_deployment_target_set, macosx_deployment_target_set,
    logging_mode, verbose_mode, finding_mode,
    req,            \* the pending call of request_command: name, caller
    search_string,  \* the colon-separated search string, as pieces
    branches,       \* the mode branches of request_command that appended
    probed,         \* the paths search_command has tested with access()
    loaded,         \* the info.ini paths ini_parse was asked to open
    cmd,            \* the absolute path search_command found
    child,          \* the image execve started: path and envp, or NoChild
    rc,             \* the value request_command returned
    status,         \* the exit status of the process, -1 while running
    out,            \* the lines printed on stdout
    reads,          \* what call_command read from the SDK record
    tt              \* the target-triple harness: version, arch, result

progvars == <<pc, developer_dir, current_sdk, current_toolchain,
              explicit_sdk_mode, explicit_toolchain_mode,
              alternate_sdk_path, alternate_toolchain_path,
              ios_deployment_target_set, macosx_deployment_target_set,
              logging_mode, verbose_mode, finding_mode, req, search_string,
              branches, probed, loaded, cmd, child, rc, status, out, reads>>

inputs == <<environ, cmdline, fs>>

vars == <<inputs, progvars, tt>>

-----------------------------------------------------------------------------
(* C strings *)

NULL == <<>>

\* the C string a sequence of pieces stands for
RECURSIVE Str(_)
Str(s) == IF s = <<>> THEN "" ELSE Head(s) \o Str(Tail(s))

\* one piece holding a whole string
Lit(s) == <<s>>

\* strlen(s) == 0
IsEmptyStr(s) == Str(s) = ""

\* the positions of the piece c in s
Positions(s, c) == {i \in 1..Len(s) : s[i] = c}

\* the element of a singleton: The({e(x) : x \in {v}}) is e(v), with v
\* evaluated once
The(S) == CHOOSE x \in S : TRUE

SetMin(S) == CHOOSE x \in S : \A y \in S : x <= y
SetMax(S) == CHOOSE x \in S : \A y \in S : x >= y

\* stripext: the string up to its first '.'
stripext(src) ==
    LET dots == Positions(src, ".")
    IN  IF dots = {} THEN Str(src)
        ELSE Str(SubSeq(src, 1, SetMin(dots) - 1))

\* basename(3) of <libgen.h>: trailing slashes dropped, then the last component
RECURSIVE DropTrailingSlashes(_)
DropTrailingSlashes(s) ==
    IF Len(s) > 1 /\ s[Len(s)] = "/"
    THEN DropTrailingSlashes(SubSeq(s, 1, Len(s) - 1))
    ELSE s

basename(path) ==
    LET p      == DropTrailingSlashes(path)
        slashes == Positions(p, "/")
    IN  IF IsEmptyStr(path) THEN Lit(".")
        ELSE IF p = <<"/">> THEN p
        ELSE IF slashes = {} THEN p
        ELSE SubSeq(p, SetMax(slashes) + 1, Len(p))

-----------------------------------------------------------------------------
(* Program constants *)

XCRUN_DEFAULT_CFG == "/etc/xcrun.ini"
SDK_CFG == ".xcdev.dat"

multicall_tool_names == <<"xcrun", "xcrun_log", "xcrun_verbose", "xcrun_nocache">>

-----------------------------------------------------------------------------
(* The file system *)

\* stat(path) succeeds: there is a file of some kind at path
Exists(path) ==
    path \in fs.dirs \cup fs.exes \cup DOMAIN fs.inis \cup DOMAIN fs.files

\* a validation that takes any file for a directory
validate_directory_path_any(dir) == IF Exists(dir) THEN 0 ELSE -1

\* stat() succeeds and S_ISDIR
validate_directory_path(dir) ==
    IF ~Exists(dir) THEN -1
    ELSE IF dir \notin fs.dirs THEN -1
    ELSE 0

\* access(path, F_OK | X_OK) == 0
access_x(path) == path \in fs.exes

\* a test for another file than the one an SDK folder holds
test_sdk_authenticity_plist(path) ==
    IF (path \o "/SDKSettings.plist") \in DOMAIN fs.inis THEN 1 ELSE 0

\* access(fname, F_OK) != -1 on <path>/info.ini
test_sdk_authenticity(path) ==
    IF (path \o "/info.ini") \in DOMAIN fs.inis THEN 1 ELSE 0

-----------------------------------------------------------------------------
(* The inherited environment *)

HasEnv(n) == n \in DOMAIN environ
getenv(n) == IF HasEnv(n) THEN environ[n] ELSE NULL

-----------------------------------------------------------------------------
(* Configuration loading.  The struct a loader fills is an uninitialized   *)
(* local (sdk_config config;): a field no key of the file sets keeps       *)
(* whatever the stack held.  UNINIT marks such a field; the code that      *)
(* reads it gets one of UninitOutcomes, chosen by the action.              *)

UNINIT == <<"<uninit>">>
Junk == <<"?">>

\* what reading (strdup of, printing) a field nothing set can do: the
\* pointer is null and the read yields NULL, it is null or wild and the read
\* faults, or it points at some string
UninitOutcomes == {"null", "segv", "junk"}

\* the machine state the loaders touch: the two platform flags, and the
\* list of files ini_parse tried to open
Ctx(ios, mac, ld) == [ios |-> ios, mac |-> mac, loaded |-> ld]

MATCH_INI_STON(line, s, n) == line.section = s /\ line.name = n

\* toolchain_cfg_handler: user is [cfg]
toolchain_cfg_handler(user, line) ==
    IF MATCH_INI_STON(line, "TOOLCHAIN", "name")
    THEN [ret |-> 1, user |-> [user EXCEPT !.cfg.name = line.value]]
    ELSE IF MATCH_INI_STON(line, "TOOLCHAIN", "version")
    THEN [ret |-> 1, user |-> [user EXCEPT !.cfg.version = line.value]]
    ELSE [ret |-> 0, user |-> user]

\* sdk_cfg_handler: user is [cfg, ios, mac]; the two flags are the globals
\* ios_deployment_target_set and macosx_deployment_target_set
sdk_cfg_handler(user, line) ==
    IF MATCH_INI_STON(line, "SDK", "name")
    THEN [ret |-> 1, user |-> [user EXCEPT !.cfg.name = line.value]]
    ELSE IF MATCH_INI_STON(line, "SDK", "version")
    THEN [ret |-> 1, user |-> [user EXCEPT !.cfg.version = line.value]]
    ELSE IF MATCH_INI_STON(line, "SDK", "toolchain")
    THEN [ret |-> 1, user |-> [user EXCEPT !.cfg.toolchain = line.value]]
    ELSE IF MATCH_INI_STON(line, "SDK", "default_arch")
    THEN [ret |-> 1, user |-> [user EXCEPT !.cfg.default_arch = line.value]]
    ELSE IF MATCH_INI_STON(line, "SDK", "iphoneos_deployment_target")
    THEN [ret |-> 1,
          user |-> [user EXCEPT !.ios = 1, !.mac = 0,
                                !.cfg.deployment_target = line.value]]
    ELSE IF MATCH_INI_STON(line, "SDK", "macosx_deployment_target")
    THEN [ret |-> 1,
          user |-> [user EXCEPT !.ios = 0, !.mac = 1,
                                !.cfg.deployment_target = line.value]]
    ELSE [ret |-> 0, user |-> user]

\* default_cfg_handler: user is [cfg]
default_cfg_handler(user, line) ==
    IF MATCH_INI_STON(line, "SDK", "name")
    THEN [ret |-> 1, user |-> [user EXCEPT !.cfg.sdk = line.value]]
    ELSE IF MATCH_INI_STON(line, "TOOLCHAIN", "name")
    THEN [ret |-> 1, user |-> [user EXCEPT !.cfg.toolchain = line.value]]
    ELSE [ret |-> 0, user |-> user]

\* the call through the handler pointer ini_parse is given
call_handler(handler, user, line) ==
    CASE handler = "toolchain_cfg_handler" -> toolchain_cfg_handler(user, line)
      [] handler = "sdk_cfg_handler" -> sdk_cfg_handler(user, line)
      [] handler = "default_cfg_handler" -> default_cfg_handler(user, line)

\* ini_parse: -1 when the file cannot be opened; otherwise the handler is
\* called on every name=value line in file order, a line the handler
\* rejects is counted as an error and parsing goes on
RECURSIVE IniFold(_, _, _)
IniFold(lines, handler, user) ==
    IF lines = <<>> THEN user
    ELSE IniFold(Tail(lines), handler, call_handler(handler, user, Head(lines)).user)

RECURSIVE IniFirstError(_, _, _, _)
IniFirstError(lines, handler, user, n) ==
    IF lines = <<>> THEN 0
    ELSE IF call_handler(handler, user, Head(lines)).ret = 0 THEN n
    ELSE IniFirstError(Tail(lines), handler,
                       call_handler(handler, user, Head(lines)).user, n + 1)

ini_parse(path, handler, user) ==
    IF path \notin DOMAIN fs.inis
    THEN [rc |-> -1, user |-> user]
    ELSE [rc   |-> IniFirstError(fs.inis[path], handler, user, 1),
          user |-> IniFold(fs.inis[path], handler, user)]

\* the struct before any key is seen
toolchain_config == [name |-> UNINIT, version |-> UNINIT]
sdk_config == [name |-> UNINIT, version |-> UNINIT, toolchain |-> UNINIT,
               default_arch |-> UNINIT, deployment_target |-> UNINIT]
default_config == [sdk |-> UNINIT, toolchain |-> UNINIT]

\* get_toolchain_info: the record, or exit(1) when ini_parse returns -1
get_toolchain_info(path, ctx) ==
    The({ [exit |-> r.rc = -1, cfg |-> r.user.cfg,
           ctx  |-> [ctx EXCEPT !.loaded = Append(@, path \o "/info.ini")]] :
          r \in {ini_parse(path \o "/info.ini", "toolchain_cfg_handler",
                           [cfg |-> toolchain_config])} })

\* get_sdk_info: the record, or exit(1) when ini_parse returns -1; the
\* handler leaves the platform flags as the file's keys set them
get_sdk_info(path, ctx) ==
    The({ [exit |-> r.rc = -1, cfg |-> r.user.cfg,
           ctx  |-> Ctx(r.user.ios, r.user.mac, Append(ctx.loaded, path \o "/info.ini"))] :
          r \in {ini_parse(path \o "/info.ini", "sdk_cfg_handler",
                           [cfg |-> sdk_config, ios |-> ctx.ios, mac |-> ctx.mac])} })

\* get_default_info
get_default_info(path, ctx) ==
    The({ [exit |-> r.rc = -1, cfg |-> r.user.cfg,
           ctx  |-> [ctx EXCEPT !.loaded = Append(@, path)]] :
          r \in {ini_parse(path, "default_cfg_handler", [cfg |-> default_config])} })

\* the value the code gets when it reads field v of a loaded record
FieldValue(v, u) ==
    IF v # UNINIT THEN v ELSE IF u = "junk" THEN Junk ELSE NULL

\* the read faults
FieldFaults(v, u) == v = UNINIT /\ u = "segv"

\* a file that leaves no field unset of the record it is loaded into
Complete(lines) ==
    LET s == IniFold(lines, "sdk_cfg_handler",
                     [cfg |-> sdk_config, ios |-> 0, mac |-> 0]).cfg
        t == IniFold(lines, "toolchain_cfg_handler", [cfg |-> toolchain_config]).cfg
        d == IniFold(lines, "default_cfg_handler", [cfg |-> default_config]).cfg
    IN  \/ \A f \in DOMAIN s : s[f] # UNINIT
        \/ \A f \in DOMAIN t : t[f] # UNINIT
        \/ \A f \in DOMAIN d : d[f] # UNINIT

\* the outcomes to consider for the reads of loaded records: when every
\* file of the file system is complete no read meets an unset field, and
\* one outcome stands for all
RecordReads ==
    IF \A p \in DOMAIN fs.inis : Complete(fs.inis[p]) THEN {"null"} ELSE UninitOutcomes

-----------------------------------------------------------------------------
(* Path resolution *)

\* get_toolchain_path: <developer_dir>/Toolchains/<name>.toolchain, or exit(1)
get_toolchain_path(name) ==
    LET path == developer_dir \o "/Toolchains/" \o name \o ".toolchain"
    IN  [exit |-> validate_directory_path(path) = -1, path |-> path]

\* get_sdk_path: <developer_dir>/SDKs/<name>.sdk, or exit(1)
get_sdk_path(name) ==
    LET path == developer_dir \o "/SDKs/" \o name \o ".sdk"
    IN  [exit |-> validate_directory_path(path) = -1, path |-> path]

-----------------------------------------------------------------------------
(* Target triple *)

\* a digit test that misses '0'
IsDigit_nonzero(ch) == ch \in {"1", "2", "3", "4", "5", "6", "7", "8", "9"}

IsDigit(ch) == ch \in {"0", "1", "2", "3", "4", "5", "6", "7", "8", "9"}

DigitVal(ch) ==
    CASE ch = "0" -> 0 [] ch = "1" -> 1 [] ch = "2" -> 2 [] ch = "3" -> 3
      [] ch = "4" -> 4 [] ch = "5" -> 5 [] ch = "6" -> 6 [] ch = "7" -> 7
      [] ch = "8" -> 8 [] ch = "9" -> 9

\* the do-while of parse_target_triple over the characters of ver (the
\* terminating NUL, which only advances `where`, included): v is
\* [where, xx, yy, zz]
ScanStep(v, ch) ==
    IF IsDigit(ch)
    THEN CASE v.where = 1 -> [v EXCEPT !.xx = v.xx * 10 + DigitVal(ch)]
           [] v.where = 2 -> [v EXCEPT !.yy = v.yy * 10 + DigitVal(ch)]
           [] v.where = 3 -> [v EXCEPT !.zz = v.zz * 10 + DigitVal(ch)]
           [] OTHER -> v
    ELSE [v EXCEPT !.where = v.where + 1]

RECURSIVE ScanVersion(_, _)
ScanVersion(ver, v) ==
    IF ver = <<>> THEN ScanStep(v, "\\0")
    ELSE ScanVersion(Tail(ver), ScanStep(v, Head(ver)))

\* the switch on xx
KernVer(xx, yy, is_macosx) ==
    CASE xx = 11 -> 17
      [] xx = 10 -> (IF is_macosx THEN yy + 4 ELSE 16)
      [] xx = 9  -> 15
      [] xx = 8  -> 14
      [] xx = 7  -> 14
      [] xx = 6  -> 13
      [] xx = 5  -> 11
      [] xx = 4  -> (IF yy <= 2 THEN 10 ELSE 11)
      [] xx = 3  -> 10
      [] xx = 2  -> 9
      [] OTHER   -> 9

\* parse_target_triple for a non-null ver: what sprintf leaves in triple
parse_target_triple(ver, arch) ==
    LET is_macosx == Str(arch) = "x86_64" \/ Str(arch) = "i386"
        v == ScanVersion(ver, [where |-> 1, xx |-> 0, yy |-> 0, zz |-> 0])
    IN  Str(arch) \o "-apple-darwin" \o ToString(KernVer(v.xx, v.yy, is_macosx))

\* the result of get_target_triple.
\* kind: "ok" (returned), "exit" (exit(1) in a callee), "segv"
Triple(kind, triple, ctx, dt) == [kind |-> kind, triple |-> triple, ctx |-> ctx, dt |-> dt]

Unread == Lit("<unread>")

\* lines 593-603 of get_target_triple: the triple parsed from the SDK's
\* default_arch and deployment_target (two loads of the SDK's info.ini),
\* NULL when either reads as null
derive_target_triple(sdk, ctx, u1, u2) ==
    The({
      IF p.exit THEN Triple("exit", NULL, ctx, Unread)
      ELSE The({
        IF i1.exit THEN Triple("exit", NULL, i1.ctx, Unread)
        ELSE IF FieldFaults(i1.cfg.default_arch, u1)
        THEN Triple("segv", NULL, i1.ctx, Unread)
        ELSE IF FieldValue(i1.cfg.default_arch, u1) = NULL
        THEN Triple("ok", NULL, i1.ctx, Unread)
        ELSE The({
          IF i2.exit THEN Triple("exit", NULL, i2.ctx, Unread)
          ELSE IF FieldFaults(i2.cfg.deployment_target, u2)
          THEN Triple("segv", NULL, i2.ctx, Unread)
          ELSE IF FieldValue(i2.cfg.deployment_target, u2) = NULL
          THEN Triple("ok", NULL, i2.ctx, NULL)
          ELSE Triple("ok",
                      Lit(parse_target_triple(FieldValue(i2.cfg.deployment_target, u2),
                                              FieldValue(i1.cfg.default_arch, u1))),
                      i2.ctx, FieldValue(i2.cfg.deployment_target, u2))
          : i2 \in {get_sdk_info(p.path, i1.ctx)} })
        : i1 \in {get_sdk_info(p.path, ctx)} })
      : p \in {get_sdk_path(sdk)} })

\* a get_target_triple that does not look at the inherited TARGET_TRIPLE
get_target_triple_derived(sdk, ctx, u1, u2) == derive_target_triple(sdk, ctx, u1, u2)

\* get_target_triple: the inherited TARGET_TRIPLE when there is one, else
\* the derived one
get_target_triple(sdk, ctx, u1, u2) ==
    IF HasEnv("TARGET_TRIPLE")
    THEN Triple("ok", getenv("TARGET_TRIPLE"), ctx, Unread)
    ELSE derive_target_triple(sdk, ctx, u1, u2)

-----------------------------------------------------------------------------
(* The child environment *)

\* one string of envp: "NAME=value"; the buffers are calloc'ed, so an entry
\* nothing is printed into is the empty string
EnvEntry(n, v) == [name |-> n, value |-> v]
EmptyEntry == [name |-> "", value |-> ""]

\* what printf's %s makes of a pointer: a null pointer prints as "(null)"
\* (or faults, see NullPrintOutcomes)
Fmt(v) == IF v = NULL THEN "(null)" ELSE Str(v)

\* what formatting a null pointer with %s can do
NullPrintOutcomes == {"print", "segv"}

\* the result of lines 657-672.
\* kind: "ok", "exit", "segv", "ret" (call_command returns -1)
DtEntry(kind, ctx, dt, entry) == [kind |-> kind, ctx |-> ctx, dt |-> dt, entry |-> entry]

\* a null deployment target that is passed over, envp[5] left empty
no_deployment_target_ignored(ctx) == DtEntry("ok", ctx, NULL, EmptyEntry)

\* lines 668-671: the SDK's deployment target is null, call_command
\* reports it and returns -1
no_deployment_target(ctx) == DtEntry("ret", ctx, NULL, EmptyEntry)

\* lines 657-672 of call_command: the deployment-target entry envp[5]
deployment_entry(ctx, u3) ==
    IF HasEnv("IPHONEOS_DEPLOYMENT_TARGET")
    THEN DtEntry("ok", ctx, Unread,
                 EnvEntry("IPHONEOS_DEPLOYMENT_TARGET",
                          Str(getenv("IPHONEOS_DEPLOYMENT_TARGET"))))
    ELSE IF HasEnv("MACOSX_DEPLOYMENT_TARGET")
    THEN DtEntry("ok", ctx, Unread,
                 EnvEntry("MACOSX_DEPLOYMENT_TARGET",
                          Str(getenv("MACOSX_DEPLOYMENT_TARGET"))))
    ELSE The({
      IF p.exit THEN DtEntry("exit", ctx, Unread, EmptyEntry)
      ELSE The({
        IF i.exit THEN DtEntry("exit", i.ctx, Unread, EmptyEntry)
        ELSE IF FieldFaults(i.cfg.deployment_target, u3)
        THEN DtEntry("segv", i.ctx, Unread, EmptyEntry)
        ELSE The({
          IF deployment_target = NULL THEN no_deployment_target(i.ctx)
          ELSE DtEntry("ok", i.ctx, deployment_target,
                       IF i.ctx.mac = 1
                       THEN EnvEntry("MACOSX_DEPLOYMENT_TARGET", Str(deployment_target))
                       ELSE IF i.ctx.ios = 1
                       THEN EnvEntry("IPHONEOS_DEPLOYMENT_TARGET", Str(deployment_target))
                       ELSE EmptyEntry)
          : deployment_target \in {FieldValue(i.cfg.deployment_target, u3)} })
        : i \in {get_sdk_info(p.path, ctx)} })
      : p \in {get_sdk_path(current_sdk)} })

\* a PATH that is the inherited one, passed through
path_entry_inherited(toolchain_path) == EnvEntry("PATH", Fmt(getenv("PATH")))

\* line 647: envp[1]
path_entry(toolchain_path) ==
    EnvEntry("PATH", developer_dir \o "/usr/bin:" \o toolchain_path
                     \o "/usr/bin:" \o Fmt(getenv("PATH")))

\* the result of call_command up to execve.
\* kind: "ok" (execve is called), "exit", "segv", "ret" (returns -1)
Called(kind, envp, ctx, rd) == [kind |-> kind, envp |-> envp, ctx |-> ctx, reads |-> rd]

NoReads == [tt_dt |-> Unread, dt |-> Unread]

\* call_command up to execve: the seven strings of envp
call_command(ctx, u1, u2, u3, un) ==
    The({
      IF sp.exit \/ tp.exit THEN Called("exit", <<>>, ctx, NoReads)
      ELSE IF (~HasEnv("PATH") \/ ~HasEnv("HOME")) /\ un = "segv"
      THEN Called("segv", <<>>, ctx, NoReads)
      ELSE The({
        IF t.kind # "ok" THEN Called(t.kind, <<>>, t.ctx, NoReads)
        ELSE The({
          IF d.kind # "ok"
          THEN Called(d.kind, <<>>, d.ctx, [tt_dt |-> t.dt, dt |-> d.dt])
          ELSE Called("ok",
                 << EnvEntry("SDKROOT", sp.path),
                    path_entry(tp.path),
                    EnvEntry("LD_LIBRARY_PATH", tp.path \o "/usr/lib"),
                    EnvEntry("HOME", Fmt(getenv("HOME"))),
                    IF t.triple # NULL
                    THEN EnvEntry("TARGET_TRIPLE", Str(t.triple))
                    ELSE EmptyEntry,
                    d.entry,
                    EnvEntry("DEVELOPER_DIR", developer_dir) >>,
                 d.ctx, [tt_dt |-> t.dt, dt |-> d.dt])
          : d \in {deployment_entry(t.ctx, u3)} })
        : t \in {get_target_triple(current_sdk, ctx, u1, u2)} })
      : sp \in {get_sdk_path(current_sdk)},
        tp \in {get_toolchain_path(current_toolchain)} })

-----------------------------------------------------------------------------
(* Selection of the active SDK and toolchain *)

\* the result of a selection.  kind: "ok", "exit", "segv"
Selected(kind, val, ctx) == [kind |-> kind, val |-> val, ctx |-> ctx]

\* the name read from the default file
default_name(i, field, u, cur) ==
    IF i.exit THEN Selected("exit", cur, i.ctx)
    ELSE IF FieldValue(field, u) = NULL \/ FieldFaults(field, u)
    THEN Selected("segv", cur, i.ctx)
    ELSE Selected("ok", Str(FieldValue(field, u)), i.ctx)

\* lines 977-993 of xcrun_main and 735-751 of request_command: an empty
\* current_sdk / current_toolchain is filled from SDKROOT / TOOLCHAINS, else
\* from the default file
select_sdk(cur, ctx, u) ==
    IF cur # "" THEN Selected("ok", cur, ctx)
    ELSE IF HasEnv("SDKROOT")
    THEN Selected("ok", stripext(basename(getenv("SDKROOT"))), ctx)
    ELSE The({ default_name(i, i.cfg.sdk, u, cur) :
               i \in {get_default_info(XCRUN_DEFAULT_CFG, ctx)} })

select_toolchain(cur, ctx, u) ==
    IF cur # "" THEN Selected("ok", cur, ctx)
    ELSE IF HasEnv("TOOLCHAINS")
    THEN Selected("ok", stripext(basename(getenv("TOOLCHAINS"))), ctx)
    ELSE The({ default_name(i, i.cfg.toolchain, u, cur) :
               i \in {get_default_info(XCRUN_DEFAULT_CFG, ctx)} })

\* both, in the order of the code
select_active(cur_sdk, cur_tc, ctx, u1, u2) ==
    The({
      IF s.kind # "ok"
      THEN [kind |-> s.kind, sdk |-> cur_sdk, tc |-> cur_tc, ctx |-> s.ctx]
      ELSE The({ [kind |-> t.kind, sdk |-> s.val, tc |-> t.val, ctx |-> t.ctx] :
                 t \in {select_toolchain(cur_tc, s.ctx, u2)} })
      : s \in {select_sdk(cur_sdk, ctx, u1)} })

-----------------------------------------------------------------------------
(* The search path *)

\* lines 753-787 of request_command: search_string, as the pieces the
\* sprintf calls append (":" is a piece of its own), and the set of mode
\* branches that appended (1 explicit SDK name, 2 explicit toolchain name,
\* 3 alternate SDK path, 4 alternate toolchain path, 5 default).
\* kind: "ok" (do_search is reached), "exit", "segv"
Search(kind, str, br, ctx) == [kind |-> kind, str |-> str, branches |-> br, ctx |-> ctx]

\* an SDK whose toolchain is not looked up: the search goes on with the
\* SDK's own usr/bin
sdk_toolchain_entry_skipped(str, br, i, u) == Search("ok", str, br, i.ctx)

\* the toolchain an SDK's info.ini names, appended after the SDK's own
\* usr/bin (lines 757-758 and 769-770)
sdk_toolchain_entry(str, br, i, u) ==
    IF i.exit THEN Search("exit", <<>>, {}, i.ctx)
    ELSE IF FieldFaults(i.cfg.toolchain, u) THEN Search("segv", <<>>, {}, i.ctx)
    ELSE The({ IF tp.exit THEN Search("exit", <<>>, {}, i.ctx)
               ELSE Search("ok", str \o <<tp.path \o "/usr/bin">>, br, i.ctx)
               : tp \in {get_toolchain_path(Fmt(FieldValue(i.cfg.toolchain, u)))} })

\* a search string that does not start with the developer root
developer_entry_omitted == <<>>

\* line 754: the developer root's usr/bin, before anything else
developer_entry == <<developer_dir \o "/usr/bin", ":">>

\* sdk and tc are current_sdk and current_toolchain as lines 735-751 have
\* left them
build_search_string(sdk, tc, ctx, u) ==
    The({
      IF explicit_sdk_mode = 1
      THEN IF sp.exit THEN Search("exit", <<>>, {}, ctx)
           ELSE sdk_toolchain_entry(first \o <<sp.path \o "/usr/bin", ":">>, {1},
                                    get_sdk_info(sp.path, ctx), u)
      ELSE IF explicit_toolchain_mode = 1
      THEN IF tp.exit THEN Search("exit", <<>>, {}, ctx)
           ELSE Search("ok", first \o <<tp.path \o "/usr/bin">>, {2}, ctx)
      ELSE IF alternate_sdk_path # NULL /\ test_sdk_authenticity(alt) = 1
      THEN sdk_toolchain_entry(first \o <<alt \o "/usr/bin", ":">>, {3},
                               get_sdk_info(alt, ctx), u)
      ELSE IF alternate_toolchain_path = NULL /\ alternate_sdk_path = NULL
      THEN IF sp.exit \/ tp.exit THEN Search("exit", <<>>, {}, ctx)
           ELSE Search("ok", first \o <<sp.path \o "/usr/bin", ":", tp.path \o "/usr/bin">>,
                       {5}, ctx)
      ELSE Search("ok",
                  first
                  \o (IF alternate_sdk_path # NULL
                      THEN <<alt \o "/usr/bin", ":">> ELSE <<>>)
                  \o (IF alternate_toolchain_path # NULL
                      THEN <<Str(alternate_toolchain_path) \o "/usr/bin">> ELSE <<>>),
                  (IF alternate_sdk_path # NULL THEN {3} ELSE {})
                  \cup (IF alternate_toolchain_path # NULL THEN {4} ELSE {}),
                  ctx)
      : first \in {developer_entry},
        sp \in {get_sdk_path(sdk)},
        tp \in {get_toolchain_path(tc)},
        alt \in {Str(alternate_sdk_path)} })

\* strtok(dirs, ":"): the non-empty runs between colons, in order
RECURSIVE Tokens(_, _)
Tokens(pieces, run) ==
    IF pieces = <<>> THEN (IF run = "" THEN <<>> ELSE <<run>>)
    ELSE IF Head(pieces) = ":"
    THEN (IF run = "" THEN <<>> ELSE <<run>>) \o Tokens(Tail(pieces), "")
    ELSE Tokens(Tail(pieces), run \o Head(pieces))

\* a search that goes through every entry and keeps the last hit
search_command_last(name, dirs) ==
    LET entries == Tokens(dirs, "")
        hits == {i \in 1..Len(entries) : access_x(entries[i] \o "/" \o name)}
        tested == [i \in 1..Len(entries) |-> entries[i] \o "/" \o name]
    IN  [ret |-> IF hits = {} THEN -1 ELSE 0,
         buf |-> IF hits = {} THEN "" ELSE tested[SetMax(hits)],
         tested |-> tested]

\* search_command: the entries are tested in order, "<entry>/<name>" with
\* access(F_OK | X_OK), up to the first hit.
\* ret 0 and buf on a hit, ret -1 when every entry failed
search_command(name, dirs) ==
    LET entries == Tokens(dirs, "")
        hits == {i \in 1..Len(entries) : access_x(entries[i] \o "/" \o name)}
        upto == IF hits = {} THEN Len(entries) ELSE SetMin(hits)
        tested == [i \in 1..upto |-> entries[i] \o "/" \o name]
    IN  [ret |-> IF hits = {} THEN -1 ELSE 0,
         buf |-> IF hits = {} THEN "" ELSE tested[upto],
         tested |-> tested]

-----------------------------------------------------------------------------
(* Multicall dispatch *)

\* get_multicall_state: the loop runs i = 0 .. state_size - 2
get_multicall_state(name, state, state_size) ==
    LET found == {i \in 0..(state_size - 2) : name = state[i + 1]}
    IN  IF found = {} THEN -1 ELSE SetMin(found) + 1

\* get_developer_path: DEVELOPER_DIR, else the content of $HOME/.xcdev.dat;
\* len is what the function returns
get_developer_path ==
    IF HasEnv("DEVELOPER_DIR")
    THEN [len |-> Len(Str(getenv("DEVELOPER_DIR"))), path |-> Str(getenv("DEVELOPER_DIR"))]
    ELSE IF ~HasEnv("HOME") THEN [len |-> 0, path |-> ""]
    ELSE LET cfg_path == Str(getenv("HOME")) \o "/" \o SDK_CFG
         IN  IF cfg_path \in DOMAIN fs.files
             THEN [len  |-> IF Len(fs.files[cfg_path]) > 0 THEN 1 ELSE 0,
                   path |-> fs.files[cfg_path]]
             ELSE [len |-> 0, path |-> ""]

-----------------------------------------------------------------------------
(* xcrun_main *)

ShowModes == {"show_sdk_path", "show_sdk_version", "show_toolchain_path",
              "show_toolchain_version", "show_target_triple"}

\* the show queries of lines 995-1023, in the order the code tests them.
\* kind: "return" (printed, returns 0), "exit", "segv"
Shown(kind, ctx, o) == [kind |-> kind, ctx |-> ctx, out |-> o]

\* lines 1001-1005: SDK name and version, from two loads of the SDK's info.ini
show_sdk_version(sp, ctx, u3, u4) ==
    The({
      The({
        IF sp.exit \/ n1.exit \/ n2.exit THEN Shown("exit", n1.ctx, <<>>)
        ELSE IF FieldFaults(n1.cfg.name, u3) \/ FieldFaults(n2.cfg.version, u4)
        THEN Shown("segv", n2.ctx, <<>>)
        ELSE Shown("return", n2.ctx,
                   <<Fmt(FieldValue(n1.cfg.name, u3)) \o " SDK version "
                     \o Fmt(FieldValue(n2.cfg.version, u4))>>)
        : n2 \in {get_sdk_info(sp.path, n1.ctx)} })
      : n1 \in {get_sdk_info(sp.path, ctx)} })

\* lines 1013-1017: SDK name, toolchain version and toolchain name
show_toolchain_version(sp, tp, ctx, u3, u4, u5) ==
    The({
      The({
       The({
        IF sp.exit \/ n1.exit \/ tp.exit \/ t1.exit \/ t2.exit
        THEN Shown("exit", n1.ctx, <<>>)
        ELSE IF FieldFaults(n1.cfg.name, u3) \/ FieldFaults(t1.cfg.version, u4)
                \/ FieldFaults(t2.cfg.name, u5)
        THEN Shown("segv", t2.ctx, <<>>)
        ELSE Shown("return", t2.ctx,
                   <<Fmt(FieldValue(n1.cfg.name, u3)) \o " SDK Toolchain version "
                     \o Fmt(FieldValue(t1.cfg.version, u4)) \o " ("
                     \o Fmt(FieldValue(t2.cfg.name, u5)) \o ")">>)
        : t2 \in {get_toolchain_info(tp.path, t1.ctx)} })
       : t1 \in {get_toolchain_info(tp.path, n1.ctx)} })
      : n1 \in {get_sdk_info(sp.path, ctx)} })

\* lines 1019-1023
show_target_triple(sdk, ctx, u3, u4) ==
    The({ IF tr.kind # "ok" THEN Shown(tr.kind, tr.ctx, <<>>)
          ELSE Shown("return", tr.ctx, <<Fmt(tr.triple)>>)
          : tr \in {get_target_triple(sdk, ctx, u3, u4)} })

show_query(mode, sdk, tc, ctx, u3, u4, u5) ==
    The({
      CASE mode = "show_sdk_path" ->
             IF sp.exit THEN Shown("exit", ctx, <<>>)
             ELSE Shown("return", ctx, <<sp.path>>)
        [] mode = "show_sdk_version" -> show_sdk_version(sp, ctx, u3, u4)
        [] mode = "show_toolchain_path" ->
             IF tp.exit THEN Shown("exit", ctx, <<>>)
             ELSE Shown("return", ctx, <<tp.path>>)
        [] mode = "show_toolchain_version" ->
             show_toolchain_version(sp, tp, ctx, u3, u4, u5)
        [] mode = "show_target_triple" -> show_target_triple(sdk, ctx, u3, u4)
        [] OTHER -> Shown("return", ctx, <<>>)
      : sp \in {get_sdk_path(sdk)}, tp \in {get_toolchain_path(tc)} })

\* argv: the words of the command line
OptionWords(name, value, attached) ==
    IF value = NULL THEN <<>>
    ELSE IF attached THEN <<name \o "=" \o Str(value)>>
    ELSE <<name, Str(value)>>

ToolWords(o) ==
    CASE o.mode = "find" ->
           IF o.attached THEN <<"-f" \o Str(o.tool)>> ELSE <<"-f", Str(o.tool)>>
      [] o.mode = "run" ->
           IF o.tool = NULL THEN <<>>
           ELSE IF ~o.dashr THEN <<Str(o.tool)>>
           ELSE IF o.attached THEN <<"-r" \o Str(o.tool)>> ELSE <<"-r", Str(o.tool)>>
      [] o.mode = "show_sdk_path" -> <<"--show-sdk-path">>
      [] o.mode = "show_sdk_version" -> <<"--show-sdk-version">>
      [] o.mode = "show_toolchain_path" -> <<"--show-sdk-toolchain-path">>
      [] o.mode = "show_toolchain_version" -> <<"--show-sdk-toolchain-version">>
      [] o.mode = "show_target_triple" -> <<"--show-sdk-target-triple">>
      [] o.mode = "help" -> <<"--help">>
      [] o.mode = "version" -> <<"--version">>
      [] o.mode = "none" -> <<"--no-cache">>
      [] OTHER -> <<>>

Argv(o) ==
    <<Str(o.argv0)>>
    \o (IF o.verbose THEN <<"-v">> ELSE <<>>)
    \o (IF o.log THEN <<"-l">> ELSE <<>>)
    \o OptionWords("--sdk", o.sdk, o.attached)
    \o OptionWords("--toolchain", o.toolchain, o.attached)
    \o ToolWords(o)
    \o o.args

\* argc_offset as lines 855-960 count it: one for every option getopt
\* returns, one more for every option that takes a value (--sdk,
\* --toolchain, -r, -f), and one for a tool name that is an argument of its
\* own; the words the value occupies are not looked at
argc_offset(o) ==
    (IF o.verbose THEN 1 ELSE 0)
    + (IF o.log THEN 1 ELSE 0)
    + (IF o.sdk # NULL THEN 2 ELSE 0)
    + (IF o.toolchain # NULL THEN 2 ELSE 0)
    + (CASE o.mode = "find" -> 2
         [] o.mode = "run" -> (IF o.tool = NULL THEN 0 ELSE IF o.dashr THEN 2 ELSE 1)
         [] o.mode = "noargs" -> 0
         [] OTHER -> 1)

\* what lies behind the terminating null pointer of argv, where argv +
\* argc_offset points when argc_offset exceeds argc: a null pointer or
\* pointers to other strings
ArgvOverrun == {<<>>, <<"?">>}

\* line 1059: the vector handed to request_command, argv + argc_offset
exec_argv(o, over) ==
    IF argc_offset(o) <= Len(Argv(o))
    THEN SubSeq(Argv(o), argc_offset(o) + 1, Len(Argv(o)))
    ELSE over

\* the option loop of lines 855-954, for the options the command line holds
\* (cmdline.sdk and cmdline.toolchain are the values of --sdk and
\* --toolchain, NULL when not given).
\* ret: -1 to go on, else the value xcrun_main returns at once
parse_options(o) ==
    LET sdk_given == o.sdk # NULL
        sdk_bad   == sdk_given /\ (Head(o.sdk) = "-"
                        \/ (Head(o.sdk) = "/" /\ validate_directory_path(Str(o.sdk)) = -1))
        sdk_abs   == sdk_given /\ Head(o.sdk) = "/"
        tc_given  == o.toolchain # NULL
        tc_bad    == tc_given /\ (Head(o.toolchain) = "-"
                        \/ (Head(o.toolchain) = "/"
                            /\ validate_directory_path(Str(o.toolchain)) = -1))
        tc_abs    == tc_given /\ Head(o.toolchain) = "/"
    IN  [ret |-> IF sdk_bad \/ tc_bad THEN 1 ELSE -1,
         asp |-> IF sdk_abs THEN o.sdk ELSE alternate_sdk_path,
         atp |-> IF tc_abs THEN o.toolchain ELSE alternate_toolchain_path,
         esm |-> IF sdk_given /\ ~sdk_abs THEN 1 ELSE explicit_sdk_mode,
         etm |-> IF tc_given /\ ~tc_abs THEN 1 ELSE explicit_toolchain_mode,
         sdk |-> IF sdk_given /\ ~sdk_abs THEN stripext(o.sdk) ELSE current_sdk,
         tc  |-> IF tc_given /\ ~tc_abs THEN stripext(o.toolchain) ELSE current_toolchain]

\* xcrun_main up to its call of request_command.
\* kind: "return" (returns status), "exit", "segv", "call" (request_command
\* is called for name, in finding mode or not)
Flow(kind, st, ctx, o, p, sdk, tc, started, name) ==
    [kind |-> kind, status |-> st, ctx |-> ctx, out |-> o,
     asp |-> p.asp, atp |-> p.atp, esm |-> p.esm, etm |-> p.etm,
     sdk |-> sdk, tc |-> tc,
     verbose |-> IF started /\ cmdline.verbose THEN 1 ELSE verbose_mode,
     logging |-> IF started /\ cmdline.log THEN 1 ELSE logging_mode,
     finding |-> IF started /\ cmdline.mode = "find" THEN 1 ELSE finding_mode,
     name |-> name]

\* lines 977-1064, after the option loop
xcrun_flow(p, ctx, tool_called, u1, u2, u3, u4, u5) ==
    The({
      IF a.kind # "ok"
      THEN Flow(a.kind, 1, a.ctx, <<>>, p, a.sdk, a.tc, TRUE, Str(tool_called))
      ELSE IF cmdline.mode \in ShowModes
      THEN The({ Flow(q.kind, IF q.kind = "return" THEN 0 ELSE 1, q.ctx, q.out,
                      p, a.sdk, a.tc, TRUE, Str(tool_called))
                 : q \in {show_query(cmdline.mode, a.sdk, a.tc, a.ctx, u3, u4, u5)} })
      ELSE IF tool_called = NULL
      THEN Flow("return", 1, a.ctx, <<>>, p, a.sdk, a.tc, TRUE, Str(tool_called))
      ELSE Flow("call", 0, a.ctx, <<>>, p, a.sdk, a.tc, TRUE, Str(tool_called))
      : a \in {select_active(p.sdk, p.tc, ctx, u1, u2)} })

xcrun_main(u1, u2, u3, u4, u5) ==
    The({
      IF cmdline.mode = "noargs" THEN Flow("return", 0, ctx, <<>>, p, p.sdk, p.tc, FALSE, "")
      ELSE IF p.ret # -1 THEN Flow("return", p.ret, ctx, <<>>, p, p.sdk, p.tc, FALSE, "")
      ELSE IF (cmdline.verbose \/ cmdline.log) /\ tool_called = NULL
      THEN Flow("return", 1, ctx, <<>>, p, p.sdk, p.tc, FALSE, "")
      ELSE IF cmdline.mode \in {"help", "version"}
      THEN Flow("return", 0, ctx, <<>>, p, p.sdk, p.tc, FALSE, "")
      ELSE xcrun_flow(p, ctx, tool_called, u1, u2, u3, u4, u5)
      : p \in {parse_options(cmdline)},
        ctx \in {Ctx(ios_deployment_target_set, macosx_deployment_target_set, loaded)},
        \* tool_called is an uninitialized local when no tool is named
        tool_called \in {IF cmdline.tool # NULL THEN basename(cmdline.tool)
                         ELSE FieldValue(UNINIT, u5)} })

-----------------------------------------------------------------------------
(* The inputs: file systems, environments and command lines *)

IniLine(sec, n, v) == [section |-> sec, name |-> n, value |-> v]

\* the info.ini of SDK a (iOS 9.3, toolchain ta), by variant
SdkAIni(variant) ==
    LET name == <<IniLine("SDK", "name", Lit("a"))>>
        vers == <<IniLine("SDK", "version", <<"9", ".", "3">>)>>
        tool == <<IniLine("SDK", "toolchain", Lit("ta"))>>
        other == <<IniLine("SDK", "comment", Lit("x"))>>
        arch == <<IniLine("SDK", "default_arch", Lit("arm64"))>>
        dt   == <<IniLine("SDK", "iphoneos_deployment_target", <<"9", ".", "3">>)>>
        mac  == <<IniLine("SDK", "macosx_deployment_target", <<"1", "0", ".", "1", "4">>)>>
    IN  CASE variant = "no_dt"        -> name \o vers \o tool \o other \o arch
          [] variant = "no_version"   -> name \o tool \o other \o arch \o dt
          [] variant = "no_toolchain" -> name \o vers \o other \o arch \o dt
          [] variant = "no_arch"      -> name \o vers \o tool \o other \o dt
          [] variant = "two_dt"       -> name \o vers \o tool \o other \o arch \o dt \o mac
          [] OTHER                    -> name \o vers \o tool \o other \o arch \o dt

\* the info.ini of SDK b (macOS 10.14, toolchain tb) and of the SDK at /alt/sdk
SdkBIni ==
    << IniLine("SDK", "name", Lit("b")),
       IniLine("SDK", "version", <<"1", "0", ".", "1", "4">>),
       IniLine("SDK", "toolchain", Lit("tb")),
       IniLine("SDK", "default_arch", Lit("x86_64")),
       IniLine("SDK", "macosx_deployment_target", <<"1", "0", ".", "1", "4">>) >>

SdkAltIni ==
    << IniLine("SDK", "name", Lit("alt")),
       IniLine("SDK", "version", <<"1", "0", ".", "9">>),
       IniLine("SDK", "toolchain", Lit("tb")),
       IniLine("SDK", "default_arch", Lit("x86_64")),
       IniLine("SDK", "macosx_deployment_target", <<"1", "0", ".", "9">>) >>

ToolchainIni(n, withVersion) ==
    <<IniLine("TOOLCHAIN", "name", Lit(n))>>
    \o (IF withVersion THEN <<IniLine("TOOLCHAIN", "version", Lit("1.0"))>> ELSE <<>>)

DefaultIni ==
    << IniLine("SDK", "name", Lit("a")), IniLine("TOOLCHAIN", "name", Lit("ta")) >>

IniVariants == {"full", "missing", "no_dt", "no_version", "no_toolchain",
                "no_arch", "two_dt", "no_default"}

\* where an executable of the tool's name lies
ExeVariants == {"none", "toolchains", "sdks", "dev"}

Exes(ex) ==
    CASE ex = "none" -> {}
      [] ex = "toolchains" -> {"/Dev/Toolchains/ta.toolchain/usr/bin/clang",
                               "/Dev/Toolchains/tb.toolchain/usr/bin/clang",
                               "/alt/tc/usr/bin/clang"}
      [] ex = "sdks" -> {"/Dev/SDKs/a.sdk/usr/bin/clang", "/alt/sdk/usr/bin/clang",
                         "/Dev/Toolchains/tb.toolchain/usr/bin/clang"}
      [] ex = "dev" -> {"/Dev/usr/bin/clang", "/Dev/usr/bin/xcrun_nocache",
                        "/Dev/Toolchains/ta.toolchain/usr/bin/clang"}

\* the directory convention: <root>/SDKs/<name>.sdk/{usr/bin, info.ini},
\* <root>/Toolchains/<name>.toolchain/{usr/bin, usr/lib, info.ini}
MkFS(variant, altIni, ex, cache) ==
    [dirs  |-> {"/Dev", "/Dev/SDKs/a.sdk", "/Dev/SDKs/b.sdk",
                "/Dev/Toolchains/ta.toolchain", "/Dev/Toolchains/tb.toolchain",
                "/alt/sdk", "/alt/tc", "/home/u"},
     exes  |-> Exes(ex),
     inis  |-> ("/Dev/SDKs/b.sdk/info.ini" :> SdkBIni)
               @@ ("/Dev/Toolchains/ta.toolchain/info.ini"
                       :> ToolchainIni("ta", variant # "no_version"))
               @@ ("/Dev/Toolchains/tb.toolchain/info.ini" :> ToolchainIni("tb", TRUE))
               @@ (IF variant # "missing"
                   THEN "/Dev/SDKs/a.sdk/info.ini" :> SdkAIni(variant) ELSE <<>>)
               @@ (IF variant # "no_default"
                   THEN XCRUN_DEFAULT_CFG :> DefaultIni ELSE <<>>)
               @@ (IF altIni THEN "/alt/sdk/info.ini" :> SdkAltIni ELSE <<>>),
     \* f.sdk and tf.toolchain are regular files
     files |-> ("/Dev/SDKs/f.sdk" :> "") @@ ("/Dev/Toolchains/tf.toolchain" :> "")
               @@ (IF cache THEN ("/home/u/" \o SDK_CFG) :> "/Dev" ELSE <<>>)]

\* how the developer root is supplied, with HOME and PATH
DevSources == {"env", "gone", "cache", "nocache", "nohome", "bare", "empty"}

DevEnv(d) ==
    LET home == "HOME" :> Lit("/home/u")
        path == "PATH" :> Lit("/bin")
    IN  CASE d = "env"     -> ("DEVELOPER_DIR" :> Lit("/Dev")) @@ home @@ path
          [] d = "gone"    -> ("DEVELOPER_DIR" :> Lit("/Gone")) @@ home @@ path
          [] d = "empty"   -> ("DEVELOPER_DIR" :> Lit("")) @@ home @@ path
          [] d = "cache"   -> home @@ path
          [] d = "nocache" -> home @@ path
          [] d = "nohome"  -> path
          [] d = "bare"    -> ("DEVELOPER_DIR" :> Lit("/Dev"))

DtChoices == {"none", "ios", "mac", "both"}

\* the inherited environment; LANG and LD_LIBRARY_PATH are always inherited
MkEnv(d, sel, triple, dt) ==
    DevEnv(d)
    @@ ("LANG" :> Lit("C")) @@ ("LD_LIBRARY_PATH" :> Lit("/inherited/lib"))
    @@ (IF sel THEN ("SDKROOT" :> <<"/", "Dev", "/", "SDKs", "/", "b", ".", "sdk">>)
                    @@ ("TOOLCHAINS" :> <<"tb", ".", "toolchain">>)
        ELSE <<>>)
    @@ (IF triple THEN "TARGET_TRIPLE" :> Lit("custom-triple") ELSE <<>>)
    @@ (IF dt \in {"ios", "both"}
        THEN "IPHONEOS_DEPLOYMENT_TARGET" :> <<"8", ".", "0">> ELSE <<>>)
    @@ (IF dt \in {"mac", "both"}
        THEN "MACOSX_DEPLOYMENT_TARGET" :> <<"1", "0", ".", "9">> ELSE <<>>)

SdkOptions == {NULL, <<"a">>, <<"/", "alt", "/", "sdk">>, <<"/", "nodir">>}
ToolchainOptions == {NULL, <<"ta", ".", "toolchain">>, <<"/", "alt", "/", "tc">>}

\* the arguments that follow the tool name
TrailingArgs == <<"-c", "x.c">>

\* attached: option values are written in one word with their option
\* (--sdk=a, -rclang); dashr: the tool is named with -r
CmdLine(argv0, mode, sdk, tc, tool) ==
    [argv0 |-> argv0, mode |-> mode, sdk |-> sdk, toolchain |-> tc, tool |-> tool,
     verbose |-> FALSE, log |-> FALSE, attached |-> FALSE, dashr |-> FALSE,
     args |-> IF tool = NULL THEN <<>> ELSE TrailingArgs]

\* the ways of writing `xcrun [options] clang -c x.c` and `xcrun -f clang`
OptionForms ==
    { [CmdLine(<<"xcrun">>, "run", s, NULL, <<"clang">>)
          EXCEPT !.attached = a, !.dashr = r, !.verbose = v, !.log = l] :
        s \in {NULL, <<"a">>}, a \in BOOLEAN, r \in BOOLEAN,
        v \in BOOLEAN, l \in BOOLEAN }
    \cup { [CmdLine(<<"xcrun">>, "run", NULL, <<"ta">>, <<"clang">>) EXCEPT !.attached = a] :
             a \in BOOLEAN }
    \cup { [CmdLine(<<"xcrun">>, "find", NULL, NULL, <<"clang">>) EXCEPT !.attached = TRUE] }
    \cup { [CmdLine(<<"xcrun">>, "run", s, NULL, <<"clang">>)
               EXCEPT !.attached = TRUE, !.dashr = TRUE, !.args = <<>>] :
             s \in {NULL, <<"a">>} }

\* the command lines: xcrun with options, and the other names the binary
\* may be called by, with a tool name and no option
CmdLines ==
    { CmdLine(<<"xcrun">>, m, s, t, <<"/", "usr", "/", "bin", "/", "clang">>) :
        m \in {"run", "find"}, s \in SdkOptions, t \in ToolchainOptions }
    \cup { CmdLine(<<"xcrun">>, m, s, NULL, NULL) : m \in ShowModes, s \in {NULL, <<"a">>} }
    \cup { CmdLine(<<"xcrun">>, m, NULL, NULL, NULL) : m \in {"noargs", "help", "version", "none"} }
    \cup { [CmdLine(<<"xcrun">>, "run", NULL, NULL, NULL) EXCEPT !.verbose = TRUE] }
    \cup { CmdLine(<<"/", "usr", "/", "bin", "/", n>>, "run", NULL, NULL, <<"clang">>) :
             n \in {"xcrun_log", "xcrun_verbose", "xcrun_nocache", "clang"} }
    \cup OptionForms
    \cup { CmdLine(<<"xcrun">>, m, s, t, NULL) :
             m \in {"show_sdk_path", "show_toolchain_path"},
             s \in {NULL, <<"b">>, <<"f">>, <<"zz">>},
             t \in {NULL, <<"tb">>, <<"tf">>, <<"zz">>} }
    \cup { CmdLine(<<"xcrun">>, "run", s, NULL, <<"clang">>) : s \in {<<"f">>, <<"zz">>} }
    \cup { CmdLine(<<"xcrun">>, "run", NULL, t, <<"clang">>) : t \in {<<"tf">>, <<"zz">>} }

-----------------------------------------------------------------------------
(* The program *)

NoChild == [path |-> "", argv |-> <<>>, envp |-> <<>>, started |-> FALSE]
NoReq == [name |-> "", caller |-> "", argv |-> <<>>]
TTIdle == [pc |-> "idle", ver |-> <<>>, arch |-> <<>>, triple |-> ""]

\* the state at the entry of main
ProgInit ==
    /\ pc = "main"
    /\ developer_dir = "" /\ current_sdk = "" /\ current_toolchain = ""
    /\ explicit_sdk_mode = 0 /\ explicit_toolchain_mode = 0
    /\ alternate_sdk_path = NULL /\ alternate_toolchain_path = NULL
    /\ ios_deployment_target_set = 0 /\ macosx_deployment_target_set = 0
    /\ logging_mode = 0 /\ verbose_mode = 0 /\ finding_mode = 0
    /\ req = NoReq /\ search_string = <<>> /\ branches = {}
    /\ probed = <<>> /\ loaded = <<>> /\ cmd = ""
    /\ child = NoChild /\ rc = 0 /\ status = -1 /\ out = <<>>
    /\ reads = NoReads

\* An input the run never reads is held at one value: the startup fails
\* before anything else is read when no developer root is found; the cache
\* file and the absence of HOME and PATH are combined with one file system;
\* /alt/sdk/info.ini is read only for --sdk /alt/sdk; the inherited
\* deployment targets are read only by call_command, TARGET_TRIPLE only by
\* get_target_triple.
Combined(d, sel, triple, dt, variant, altIni, ex, c) ==
    /\ d \in {"empty", "nocache", "nohome"}
          => (sel /\ triple /\ dt = "none" /\ variant = "full" /\ altIni /\ ex = "dev")
    /\ d \in {"cache", "bare"} => (~sel /\ variant = "full" /\ ex = "toolchains")
    /\ d = "gone" => (variant = "full" /\ dt = "none")
    /\ c.sdk # <<"/", "alt", "/", "sdk">> => altIni
    /\ c.mode # "run" => dt = "none"
    /\ c.mode \notin {"run", "show_target_triple"} => ~triple
    /\ c.mode \notin {"run", "find"} => ex = "none"
    /\ ex = "none" => (dt = "none" /\ (c.mode = "run" => ~triple))

Init ==
    /\ \E d \in DevSources, sel \in BOOLEAN, triple \in BOOLEAN, dt \in DtChoices,
          variant \in IniVariants, altIni \in BOOLEAN, ex \in ExeVariants,
          c \in CmdLines :
          /\ Combined(d, sel, triple, dt, variant, altIni, ex, c)
          /\ environ = MkEnv(d, sel, triple, dt)
          /\ fs = MkFS(variant, altIni, ex, d = "cache")
          /\ cmdline = c
    /\ ProgInit
    /\ tt = TTIdle

Exit(st) == pc' = "exit" /\ status' = st

\* a fault ends the process by SIGSEGV
Segv == Exit(139)

\* main: the developer root, then the dispatch on the program's name
Main ==
    /\ pc = "main"
    /\ \E d \in {get_developer_path},
          progname \in {Str(basename(cmdline.argv0))} :
       \E call_state \in {get_multicall_state(progname, multicall_tool_names, 4)} :
           IF d.len = 0
           THEN /\ Exit(1)
                /\ UNCHANGED <<developer_dir, logging_mode, verbose_mode, req>>
           ELSE /\ developer_dir' = d.path
                /\ logging_mode' = IF call_state = 2 THEN 1 ELSE logging_mode
                /\ verbose_mode' = IF call_state = 3 THEN 1 ELSE verbose_mode
                /\ IF call_state \in 1..4
                   THEN pc' = "xcrun_main" /\ req' = req
                   ELSE /\ pc' = "request_command"
                        /\ req' = [name |-> progname, caller |-> "main",
                                   argv |-> Argv(cmdline)]
                /\ status' = status
    /\ UNCHANGED <<inputs, tt, current_sdk, current_toolchain, explicit_sdk_mode,
                   explicit_toolchain_mode, alternate_sdk_path,
                   alternate_toolchain_path, ios_deployment_target_set,
                   macosx_deployment_target_set, finding_mode, search_string,
                   branches, probed, loaded, cmd, child, rc, out, reads>>

\* xcrun_main, up to its return or its call of request_command
XcrunMain ==
    /\ pc = "xcrun_main"
    /\ \E u1, u2 \in RecordReads,
          u3, u4 \in IF cmdline.mode \in ShowModes THEN RecordReads ELSE {"null"},
          u5 \in IF cmdline.tool = NULL THEN UninitOutcomes ELSE {"null"},
          over \in IF argc_offset(cmdline) <= Len(Argv(cmdline))
                   THEN {<<>>} ELSE ArgvOverrun :
         \E r \in {xcrun_main(u1, u2, u3, u4, u5)} :
             /\ alternate_sdk_path' = r.asp
             /\ alternate_toolchain_path' = r.atp
             /\ explicit_sdk_mode' = r.esm
             /\ explicit_toolchain_mode' = r.etm
             /\ current_sdk' = r.sdk
             /\ current_toolchain' = r.tc
             /\ ios_deployment_target_set' = r.ctx.ios
             /\ macosx_deployment_target_set' = r.ctx.mac
             /\ loaded' = r.ctx.loaded
             /\ out' = r.out
             /\ CASE r.kind = "call" ->
                       /\ pc' = "request_command"
                       /\ req' = [name |-> r.name,
                                  caller |-> IF r.finding = 1 THEN "xcrun_find"
                                             ELSE "xcrun_run",
                                  argv |-> IF r.finding = 1 THEN NULL
                                           ELSE exec_argv(cmdline, over)]
                       /\ verbose_mode' = r.verbose
                       /\ logging_mode' = r.logging
                       /\ finding_mode' = r.finding
                       /\ status' = status
                  [] r.kind = "segv" ->
                       Segv /\ UNCHANGED <<req, verbose_mode, logging_mode, finding_mode>>
                  [] OTHER ->
                       /\ Exit(r.status)
                       /\ UNCHANGED <<req, verbose_mode, logging_mode, finding_mode>>
    /\ UNCHANGED <<inputs, tt, developer_dir, search_string, branches, probed,
                   cmd, child, rc, reads>>

\* request_command up to do_search: the active SDK and toolchain when still
\* unset, then the search string
RequestCommand ==
    /\ pc = "request_command"
    /\ \E u1, u2, u3 \in RecordReads :
         \E a \in {select_active(current_sdk, current_toolchain,
                                  Ctx(ios_deployment_target_set,
                                      macosx_deployment_target_set, loaded),
                                  u1, u2)} :
             /\ current_sdk' = a.sdk
             /\ current_toolchain' = a.tc
             /\ IF a.kind # "ok"
                THEN /\ (IF a.kind = "segv" THEN Segv ELSE Exit(1))
                     /\ ios_deployment_target_set' = a.ctx.ios
                     /\ macosx_deployment_target_set' = a.ctx.mac
                     /\ loaded' = a.ctx.loaded
                     /\ UNCHANGED <<search_string, branches>>
                ELSE \E b \in {build_search_string(a.sdk, a.tc, a.ctx, u3)} :
                         /\ ios_deployment_target_set' = b.ctx.ios
                         /\ macosx_deployment_target_set' = b.ctx.mac
                         /\ loaded' = b.ctx.loaded
                         /\ search_string' = b.str
                         /\ branches' = b.branches
                         /\ CASE b.kind = "ok" -> pc' = "do_search" /\ status' = status
                              [] b.kind = "segv" -> Segv
                              [] OTHER -> Exit(1)
    /\ UNCHANGED <<inputs, tt, developer_dir, explicit_sdk_mode,
                   explicit_toolchain_mode, alternate_sdk_path,
                   alternate_toolchain_path, logging_mode, verbose_mode,
                   finding_mode, req, probed, cmd, child, rc, out, reads>>

\* a request_command that returns 0 whatever happened
request_result_zero(located) == 0

\* the value request_command returns, when it returns: 0 after the path was
\* printed in finding mode, -1 in every other case (lines 791-810)
request_result(located) == IF located THEN 0 ELSE -1

\* do_search: search_command, then the report of finding mode
SearchCommand ==
    /\ pc = "do_search"
    /\ \E r \in {search_command(req.name, search_string)} :
           /\ probed' = r.tested
           /\ cmd' = r.buf
           /\ IF r.ret = 0
              THEN IF finding_mode = 1
                   THEN /\ pc' = "return"
                        /\ rc' = request_result(access_x(r.buf))
                        /\ out' = IF access_x(r.buf) THEN Append(out, r.buf) ELSE out
                   ELSE pc' = "call_command" /\ rc' = rc /\ out' = out
              ELSE pc' = "return" /\ rc' = request_result(FALSE) /\ out' = out
    /\ UNCHANGED <<inputs, tt, developer_dir, current_sdk, current_toolchain,
                   explicit_sdk_mode, explicit_toolchain_mode, alternate_sdk_path,
                   alternate_toolchain_path, ios_deployment_target_set,
                   macosx_deployment_target_set, logging_mode, verbose_mode,
                   finding_mode, req, search_string, branches, loaded, child,
                   status, reads>>

\* call_command up to execve: envp
CallCommand ==
    /\ pc = "call_command"
    /\ \E u1, u2, u3 \in RecordReads,
          un \in IF HasEnv("PATH") /\ HasEnv("HOME") THEN {"print"} ELSE NullPrintOutcomes :
         \E r \in {call_command(Ctx(ios_deployment_target_set,
                                     macosx_deployment_target_set, loaded),
                                 u1, u2, u3, un)} :
             /\ ios_deployment_target_set' = r.ctx.ios
             /\ macosx_deployment_target_set' = r.ctx.mac
             /\ loaded' = r.ctx.loaded
             /\ reads' = r.reads
             /\ CASE r.kind = "ok" ->
                       /\ child' = [path |-> cmd, argv |-> req.argv, envp |-> r.envp,
                                 started |-> FALSE]
                       /\ pc' = "execve" /\ rc' = rc /\ status' = status
                  [] r.kind = "ret" ->
                       /\ pc' = "return" /\ rc' = request_result(FALSE)
                       /\ status' = status /\ child' = child
                  [] r.kind = "segv" -> Segv /\ UNCHANGED <<rc, child>>
                  [] OTHER -> Exit(1) /\ UNCHANGED <<rc, child>>
    /\ UNCHANGED <<inputs, tt, developer_dir, current_sdk, current_toolchain,
                   explicit_sdk_mode, explicit_toolchain_mode, alternate_sdk_path,
                   alternate_toolchain_path, logging_mode, verbose_mode,
                   finding_mode, req, search_string, branches, probed, cmd, out>>

\* execve replaces the image, or fails and returns -1
ExecOutcomes == {"replaced", "failed"}

\* execve(cmd, argv, envp), the last statement of call_command
Execve ==
    /\ pc = "execve"
    /\ \E ex \in ExecOutcomes :
         IF ex = "replaced"
         THEN pc' = "exec" /\ child' = [child EXCEPT !.started = TRUE] /\ rc' = rc
         ELSE pc' = "return" /\ child' = child /\ rc' = request_result(FALSE)
    /\ UNCHANGED <<inputs, tt, developer_dir, current_sdk, current_toolchain,
                   explicit_sdk_mode, explicit_toolchain_mode, alternate_sdk_path,
                   alternate_toolchain_path, ios_deployment_target_set,
                   macosx_deployment_target_set, logging_mode, verbose_mode,
                   finding_mode, req, search_string, branches, probed, loaded,
                   cmd, status, out, reads>>

\* request_command has returned rc: lines 1050-1064 of xcrun_main, lines
\* 1119-1127 of main
Return ==
    /\ pc = "return"
    /\ Exit(CASE req.caller = "xcrun_find" -> (IF rc = 0 THEN 0 ELSE 1)
              [] req.caller = "xcrun_run" -> 1
              [] OTHER -> 1)
    /\ UNCHANGED <<inputs, tt, developer_dir, current_sdk, current_toolchain,
                   explicit_sdk_mode, explicit_toolchain_mode, alternate_sdk_path,
                   alternate_toolchain_path, ios_deployment_target_set,
                   macosx_deployment_target_set, logging_mode, verbose_mode,
                   finding_mode, req, search_string, branches, probed, loaded,
                   cmd, child, rc, out, reads>>

Next ==
    Main \/ XcrunMain \/ RequestCommand \/ SearchCommand \/ CallCommand
    \/ Execve \/ Return

Spec == Init /\ [][Next]_vars

-----------------------------------------------------------------------------
(* parse_target_triple on its own: every version string over the digits    *)
(* and '.' up to MaxVerLen characters, and every well-formed                *)
(* <major>.<minor>[.<patch>] up to MaxMajor, MaxMinor, MaxPatch.  Within    *)
(* these bounds no component reaches INT_MAX.                               *)

MaxVerLen == 4
MaxMajor == 12
MaxMinor == 15
MaxPatch == 1

VersionChars == {"0", "1", "2", "3", "4", "5", "6", "7", "8", "9", "."}

Archs == {Lit("x86_64"), Lit("i386"), Lit("arm64"), Lit("armv7")}

\* the decimal digits of n
RECURSIVE Dec(_)
Dec(n) ==
    LET d == <<"0", "1", "2", "3", "4", "5", "6", "7", "8", "9">>[(n % 10) + 1]
    IN  IF n < 10 THEN <<d>> ELSE Append(Dec(n \div 10), d)

Versions ==
    (UNION {[1..n -> VersionChars] : n \in 0..MaxVerLen})
    \cup {Dec(M) \o <<".">> \o Dec(m) : M \in 0..MaxMajor, m \in 0..MaxMinor}
    \cup {Dec(M) \o <<".">> \o Dec(m) \o <<".">> \o Dec(q) :
             M \in 0..MaxMajor, m \in 0..MaxMinor, q \in 0..MaxPatch}

InitTriple ==
    /\ environ = MkEnv("env", FALSE, FALSE, "none")
    /\ fs = MkFS("full", FALSE, "none", FALSE)
    /\ cmdline = CmdLine(<<"xcrun">>, "noargs", NULL, NULL, NULL)
    /\ ProgInit
    /\ \E ver \in Versions, arch \in Archs :
         tt = [pc |-> "start", ver |-> ver, arch |-> arch, triple |-> ""]

ParseTargetTriple ==
    /\ tt.pc = "start"
    /\ tt' = [tt EXCEPT !.pc = "done",
                        !.triple = parse_target_triple(tt.ver, tt.arch)]
    /\ UNCHANGED <<inputs, progvars>>

NextTriple == ParseTargetTriple

SpecTriple == InitTriple /\ [][NextTriple]_vars

-----------------------------------------------------------------------------
(* Properties.  What they read of the inputs is read from environ, fs and  *)
(* cmdline directly, not through the operators of the program.             *)

\* the entries of the search path
Entries == {Tokens(search_string, "")[i] : i \in 1..Len(Tokens(search_string, ""))}

\* the non-empty strings of the environment handed to execve
ChildEntries == {child.envp[i] : i \in 1..Len(child.envp)} \ {EmptyEntry}
ChildVars == {e.name : e \in ChildEntries}
ChildValues(n) == {e.value : e \in {x \in ChildEntries : x.name = n}}

\* execve has been called
ExecCalled == child.envp # <<>>

DeploymentVars == {"IPHONEOS_DEPLOYMENT_TARGET", "MACOSX_DEPLOYMENT_TARGET"}
InheritsDeploymentTarget == DeploymentVars \cap DOMAIN environ # {}

\* the value the file at path gives the last key of section sec named in
\* names, NULL when it has none; and that key's name
IniLines(path) == IF path \in DOMAIN fs.inis THEN fs.inis[path] ELSE <<>>
IniKeys(path, sec, names) ==
    {i \in 1..Len(IniLines(path)) :
        IniLines(path)[i].section = sec /\ IniLines(path)[i].name \in names}
IniValue(path, sec, names) ==
    IF IniKeys(path, sec, names) = {} THEN NULL
    ELSE IniLines(path)[SetMax(IniKeys(path, sec, names))].value
IniName(path, sec, names) ==
    IF IniKeys(path, sec, names) = {} THEN ""
    ELSE IniLines(path)[SetMax(IniKeys(path, sec, names))].name

DeploymentKeys == {"iphoneos_deployment_target", "macosx_deployment_target"}

\* the active SDK and toolchain, once chosen
ActiveSdkPath == developer_dir \o "/SDKs/" \o current_sdk \o ".sdk"
ActiveSdkIni == ActiveSdkPath \o "/info.ini"
ActiveToolchainPath == developer_dir \o "/Toolchains/" \o current_toolchain \o ".toolchain"
ActiveArch == IniValue(ActiveSdkIni, "SDK", {"default_arch"})
ActiveDeploymentTarget == IniValue(ActiveSdkIni, "SDK", DeploymentKeys)
ActiveDeploymentVar ==
    CASE IniName(ActiveSdkIni, "SDK", DeploymentKeys) = "iphoneos_deployment_target"
           -> "IPHONEOS_DEPLOYMENT_TARGET"
      [] IniName(ActiveSdkIni, "SDK", DeploymentKeys) = "macosx_deployment_target"
           -> "MACOSX_DEPLOYMENT_TARGET"
      [] OTHER -> ""

AltSdkHasIni ==
    alternate_sdk_path # NULL /\ (Str(alternate_sdk_path) \o "/info.ini") \in DOMAIN fs.inis
AltToolchainEntry == Str(alternate_toolchain_path) \o "/usr/bin"

\* C1 (as stated): when the search starts, exactly one of the five mode
\* branches has appended entries after <developer root>/usr/bin, and with
\* both an alternate SDK path and an alternate toolchain path the alternate
\* toolchain's usr/bin is not among the entries.
C1_ExactlyOneBranch ==
    pc = "do_search" =>
        /\ Cardinality(branches) = 1
        /\ (alternate_sdk_path # NULL /\ alternate_toolchain_path # NULL)
              => AltToolchainEntry \notin Entries

\* C1 (amended): when the search starts, exactly one branch has appended
\* entries, except that an alternate SDK path holding no info.ini given
\* together with an alternate toolchain path (no SDK or toolchain name
\* given) makes both the alternate-SDK and the alternate-toolchain branch
\* append; with an alternate SDK path that holds an info.ini the alternate
\* toolchain's usr/bin is not appended.
C1_OneBranchUnlessSdkPathWithoutIni ==
    pc = "do_search" =>
        IF /\ explicit_sdk_mode = 0 /\ explicit_toolchain_mode = 0
           /\ alternate_sdk_path # NULL /\ alternate_toolchain_path # NULL
           /\ ~AltSdkHasIni
        THEN /\ branches = {3, 4}
             /\ AltToolchainEntry \in Entries
        ELSE /\ Cardinality(branches) = 1
             /\ (alternate_sdk_path # NULL /\ alternate_toolchain_path # NULL)
                   => AltToolchainEntry \notin Entries

\* both alternate paths given, the SDK path holds an info.ini, and only the
\* alternate-SDK branch appended
C1_Witness ==
    /\ pc = "do_search"
    /\ AltSdkHasIni /\ alternate_toolchain_path # NULL
    /\ branches = {3}
    /\ AltToolchainEntry \notin Entries

\* C2 (as stated): the environment handed to execve holds exactly one of
\* IPHONEOS_DEPLOYMENT_TARGET and MACOSX_DEPLOYMENT_TARGET: the inherited
\* one under its own name when one is inherited, else the active SDK's
\* deployment target under the name of the SDK's platform.
C2_ExactlyOneDeploymentTarget ==
    ExecCalled =>
        /\ Cardinality({i \in 1..Len(child.envp) : child.envp[i].name \in DeploymentVars}) = 1
        /\ \A e \in ChildEntries :
              e.name \in DeploymentVars =>
                 IF e.name \in DOMAIN environ
                 THEN e.value = Str(environ[e.name])
                 ELSE /\ ~InheritsDeploymentTarget
                      /\ ActiveDeploymentTarget # NULL
                      /\ e.name = ActiveDeploymentVar
                      /\ e.value = Str(ActiveDeploymentTarget)

\* C3 (as stated): a TARGET_TRIPLE handed to execve is the triple of the
\* deployment target and default architecture the active SDK's info.ini
\* gives, whether or not a TARGET_TRIPLE is inherited.
C3_TripleAlwaysDerived ==
    (/\ ExecCalled /\ "TARGET_TRIPLE" \in ChildVars
     /\ ActiveArch # NULL /\ ActiveDeploymentTarget # NULL) =>
        ChildValues("TARGET_TRIPLE")
           = {parse_target_triple(ActiveDeploymentTarget, ActiveArch)}

\* C3 (amended): a TARGET_TRIPLE handed to execve is the inherited
\* TARGET_TRIPLE when there is one; when there is none and the active SDK's
\* info.ini gives a default architecture and a deployment target, it is
\* their triple.
C3_TripleInheritedElseDerived ==
    (ExecCalled /\ "TARGET_TRIPLE" \in ChildVars) =>
        IF "TARGET_TRIPLE" \in DOMAIN environ
        THEN ChildValues("TARGET_TRIPLE") = {Str(environ["TARGET_TRIPLE"])}
        ELSE (ActiveArch # NULL /\ ActiveDeploymentTarget # NULL)
                => ChildValues("TARGET_TRIPLE")
                      = {parse_target_triple(ActiveDeploymentTarget, ActiveArch)}

\* an inherited TARGET_TRIPLE reaches the child as it is, though the
\* active SDK's triple is another
C3_Witness ==
    /\ pc = "exec" /\ child.started
    /\ "TARGET_TRIPLE" \in DOMAIN environ
    /\ ActiveArch # NULL /\ ActiveDeploymentTarget # NULL
    /\ parse_target_triple(ActiveDeploymentTarget, ActiveArch)
          # Str(environ["TARGET_TRIPLE"])
    /\ ChildValues("TARGET_TRIPLE") = {Str(environ["TARGET_TRIPLE"])}

\* call_command found the active SDK's deployment target null
ReadNullDeploymentTarget == reads.tt_dt = NULL \/ reads.dt = NULL

\* C4 (as stated): when the active SDK's record has no deployment target,
\* call_command calls execve, with no TARGET_TRIPLE in the environment,
\* whatever is inherited.
C4_NullDeploymentTargetStillExecs ==
    (ActiveDeploymentTarget = NULL /\ ReadNullDeploymentTarget) =>
        (ExecCalled /\ "TARGET_TRIPLE" \notin ChildVars)

\* C4 (amended): when the active SDK's record has no deployment target
\* (the field reads as null), no TARGET_TRIPLE is derived, and call_command
\* calls execve only if a deployment-target variable is inherited; with
\* none inherited it returns -1 and execve is not called.
C4_NullDeploymentTargetNeedsInherited ==
    /\ (reads.tt_dt = NULL /\ ExecCalled) => "TARGET_TRIPLE" \notin ChildVars
    /\ (reads.tt_dt = NULL /\ InheritsDeploymentTarget) => ExecCalled
    /\ reads.dt = NULL =>
          /\ ~InheritsDeploymentTarget
          /\ ~ExecCalled /\ ~child.started
          /\ pc \in {"return", "exit"} /\ rc = -1

\* no deployment target in the SDK's info.ini and none inherited:
\* call_command has returned -1
C4_Witness ==
    /\ ActiveDeploymentTarget = NULL /\ ActiveSdkIni \in DOMAIN fs.inis
    /\ ~InheritsDeploymentTarget
    /\ reads.tt_dt = NULL /\ reads.dt = NULL
    /\ pc = "return" /\ rc = -1 /\ ~ExecCalled

\* an info.ini that was loaded and lacks a key of its record
LoadedIncomplete ==
    {loaded[i] : i \in 1..Len(loaded)}
    \cap {path \in DOMAIN fs.inis : path # XCRUN_DEFAULT_CFG /\ ~Complete(fs.inis[path])}

\* C5 (as stated): once an info.ini lacking a required key has been loaded,
\* no child is started and the run ends with a failure.
C5_IncompleteIniStartsNoChild ==
    LoadedIncomplete # {} =>
        /\ ~ExecCalled /\ ~child.started
        /\ pc = "exit" => status # 0

\* the active SDK's directory is there and holds no info.ini
ActiveSdkIniMissing ==
    /\ current_sdk # ""
    /\ ActiveSdkPath \in fs.dirs
    /\ ActiveSdkIni \notin DOMAIN fs.inis

\* C6 (as stated): with the active SDK's info.ini missing, no search-path
\* entry is tested, execve is not called, and the run ends with a nonzero
\* status, in every mode in which a tool is run or located.
C6_MissingIniStopsEverything ==
    (ActiveSdkIniMissing /\ cmdline.mode \in {"run", "find"}) =>
        /\ probed = <<>>
        /\ ~ExecCalled
        /\ pc = "exit" => status # 0

\* C6 (amended): with the active SDK's info.ini missing, the run or the
\* lookup of a tool for an SDK named with --sdk ends with a nonzero status
\* before any search-path entry is tested; without --sdk <name> the entries
\* are tested without the file being read, and execve is called only when
\* TARGET_TRIPLE and a deployment-target variable are both inherited.
C6_MissingIniStopsNamedSdk ==
    ActiveSdkIniMissing =>
        /\ explicit_sdk_mode = 1 =>
              /\ probed = <<>> /\ ~ExecCalled
              /\ pc \notin {"do_search", "call_command", "execve", "exec", "return"}
              /\ (pc = "exit" /\ cmdline.mode \in {"run", "find"}) => status # 0
        /\ ExecCalled =>
              ("TARGET_TRIPLE" \in DOMAIN environ /\ InheritsDeploymentTarget)

\* --sdk names an SDK without info.ini: the load was tried, the run has
\* ended with status 1 and nothing was tested
C6_Witness ==
    /\ ActiveSdkIniMissing /\ explicit_sdk_mode = 1
    /\ cmdline.mode \in {"run", "find"}
    /\ ActiveSdkIni \in {loaded[i] : i \in 1..Len(loaded)}
    /\ pc = "exit" /\ status = 1
    /\ probed = <<>> /\ ~ExecCalled

\* the developer root main obtained is no directory
DeveloperRootMissing == developer_dir # "" /\ developer_dir \notin fs.dirs

\* C7 (as stated): with a developer root that is no existing directory,
\* no search-path entry is tested, nothing is printed by a query or by
\* locate-only mode, and execve is not called.
C7_MissingDeveloperRootStopsEverything ==
    DeveloperRootMissing =>
        /\ probed = <<>>
        /\ out = <<>>
        /\ ~ExecCalled

\* the SDK and toolchain paths the precedence name flag > absolute path >
\* environment variable > default file selects
FlagIsPath(v) == v # NULL /\ Head(v) = "/"
SelectedSdkPath ==
    IF cmdline.sdk # NULL /\ ~FlagIsPath(cmdline.sdk)
    THEN developer_dir \o "/SDKs/" \o stripext(cmdline.sdk) \o ".sdk"
    ELSE IF FlagIsPath(cmdline.sdk) THEN Str(cmdline.sdk)
    ELSE IF "SDKROOT" \in DOMAIN environ
    THEN developer_dir \o "/SDKs/" \o stripext(basename(environ["SDKROOT"])) \o ".sdk"
    ELSE developer_dir \o "/SDKs/"
         \o Str(IniValue(XCRUN_DEFAULT_CFG, "SDK", {"name"})) \o ".sdk"
SelectedToolchainPath ==
    IF cmdline.toolchain # NULL /\ ~FlagIsPath(cmdline.toolchain)
    THEN developer_dir \o "/Toolchains/" \o stripext(cmdline.toolchain) \o ".toolchain"
    ELSE IF FlagIsPath(cmdline.toolchain) THEN Str(cmdline.toolchain)
    ELSE IF "TOOLCHAINS" \in DOMAIN environ
    THEN developer_dir \o "/Toolchains/"
         \o stripext(basename(environ["TOOLCHAINS"])) \o ".toolchain"
    ELSE developer_dir \o "/Toolchains/"
         \o Str(IniValue(XCRUN_DEFAULT_CFG, "TOOLCHAIN", {"name"})) \o ".toolchain"

\* C8 (as stated): SDKROOT, and the toolchain component of PATH and
\* LD_LIBRARY_PATH, of the environment handed to execve come from the
\* source the precedence name flag > absolute path > environment variable
\* > default file selects; with an absolute path and no name they are that
\* path.
C8_AbsolutePathSelectsActive ==
    (ExecCalled /\ "PATH" \in DOMAIN environ) =>
        /\ ChildValues("SDKROOT") = {SelectedSdkPath}
        /\ ChildValues("PATH")
              = {developer_dir \o "/usr/bin:" \o SelectedToolchainPath \o "/usr/bin:"
                 \o Str(environ["PATH"])}
        /\ ChildValues("LD_LIBRARY_PATH") = {SelectedToolchainPath \o "/usr/lib"}

Dots(ver) == {i \in 1..Len(ver) : ver[i] = "."}
DotAt(ver, k) ==
    IF k = 0 THEN 0
    ELSE IF Cardinality(Dots(ver)) < k THEN Len(ver) + 1
    ELSE CHOOSE i \in Dots(ver) : Cardinality({j \in Dots(ver) : j < i}) = k - 1
Component(ver, k) ==
    IF Cardinality(Dots(ver)) < k - 1 THEN <<>>
    ELSE SubSeq(ver, DotAt(ver, k - 1) + 1, DotAt(ver, k) - 1)
RECURSIVE Number(_)
Number(digits) ==
    IF digits = <<>> THEN 0
    ELSE Number(SubSeq(digits, 1, Len(digits) - 1)) * 10
         + (CHOOSE d \in 0..9 : Dec(d) = <<digits[Len(digits)]>>)

\* the kernel-major table
KernelMajor(major, minor, arch) ==
    CASE major = 11 -> 17
      [] major = 10 -> (IF arch \in {"x86_64", "i386"} THEN minor + 4 ELSE 16)
      [] major = 9 -> 15
      [] major \in {7, 8} -> 14
      [] major = 6 -> 13
      [] major = 5 -> 11
      [] major = 4 -> (IF minor <= 2 THEN 10 ELSE 11)
      [] major = 3 -> 10
      [] major = 2 -> 9
      [] OTHER -> 9

TripleOf(ver, arch) ==
    arch \o "-apple-darwin"
    \o ToString(KernelMajor(Number(Component(ver, 1)), Number(Component(ver, 2)), arch))

\* C10: for every version string over the digits and '.' and every
\* architecture, parse_target_triple writes <arch>-apple-darwin<k>, k
\* given by the kernel-major table on the major and minor components; the
\* patch component does not matter; and 10.14/x86_64 gives
\* x86_64-apple-darwin18, 11.0/arm64 arm64-apple-darwin17, 9.3/armv7
\* armv7-apple-darwin15, 4.1/x86_64 x86_64-apple-darwin10.
C10_TripleFollowsTable ==
    tt.pc = "done" =>
        /\ tt.triple = TripleOf(tt.ver, Str(tt.arch))
        /\ Cardinality(Dots(tt.ver)) >= 2 =>
              tt.triple = parse_target_triple(SubSeq(tt.ver, 1, DotAt(tt.ver, 2) - 1),
                                              tt.arch)
        /\ (tt.ver = <<"1", "0", ".", "1", "4">> /\ tt.arch = Lit("x86_64"))
              => tt.triple = "x86_64-apple-darwin18"
        /\ (tt.ver = <<"1", "1", ".", "0">> /\ tt.arch = Lit("arm64"))
              => tt.triple = "arm64-apple-darwin17"
        /\ (tt.ver = <<"9", ".", "3">> /\ tt.arch = Lit("armv7"))
              => tt.triple = "armv7-apple-darwin15"
        /\ (tt.ver = <<"4", ".", "1">> /\ tt.arch = Lit("x86_64"))
              => tt.triple = "x86_64-apple-darwin10"

\* 10.14.1 for x86_64 has been parsed: darwin18, the patch left aside
C10_Witness ==
    /\ tt.pc = "done"
    /\ tt.ver = <<"1", "0", ".", "1", "4", ".", "1">> /\ tt.arch = Lit("x86_64")
    /\ tt.triple = "x86_64-apple-darwin18"

\* the entries of the search path in their order: what lies between the
\* colons of search_string
IsEntry(piece) == piece # ":"
EntrySeq == SelectSeq(search_string, IsEntry)

\* the entries that hold an executable file of the requested name
Hits == {i \in 1..Len(EntrySeq) : (EntrySeq[i] \o "/" \o req.name) \in fs.exes}

\* search_command has run
Searched == probed # <<>>

\* C11: search_command succeeds with <entry>/<name> for the first entry,
\* in search-path order, that holds an executable <name>, testing no entry
\* after it; it fails, request_command then returning -1 without execve, if
\* and only if no entry holds one.
C11_FirstHitInOrder ==
    Searched =>
        IF Hits = {}
        THEN /\ cmd = ""
             /\ probed = [i \in 1..Len(EntrySeq) |-> EntrySeq[i] \o "/" \o req.name]
             /\ pc \in {"return", "exit"} /\ rc = -1
             /\ ~ExecCalled
        ELSE /\ cmd = EntrySeq[SetMin(Hits)] \o "/" \o req.name
             /\ probed = [i \in 1..SetMin(Hits) |-> EntrySeq[i] \o "/" \o req.name]
             /\ \A i \in 1..(Len(probed) - 1) : probed[i] \notin fs.exes
             /\ (finding_mode = 1 /\ pc = "return") => rc = 0

\* two entries hold the tool, the first of them after an entry that does
\* not: the earlier one is returned
C11_Witness ==
    /\ Searched
    /\ Cardinality(Hits) >= 2 /\ SetMin(Hits) > 1
    /\ cmd = EntrySeq[SetMin(Hits)] \o "/" \o req.name
    /\ Len(probed) = SetMin(Hits)

\* C12 (as stated): the argument vector xcrun_main hands to execve is the
\* tool name followed by the arguments that followed it on the command
\* line, in order, however the options before the tool name are written.
C12_ExecArgvIsToolAndArguments ==
    (ExecCalled /\ req.caller = "xcrun_run") =>
        /\ child.argv # <<>>
        /\ Head(child.argv) \in {Str(cmdline.tool), Str(basename(cmdline.tool))}
        /\ Tail(child.argv) = cmdline.args

\* an info.ini the run asked for that is not there
LoadedMissing == {loaded[i] : i \in 1..Len(loaded)} \ DOMAIN fs.inis

\* the failures of resolution: the developer root is no directory, a
\* metadata file the run loaded is missing or lacks a key of its record
ResolutionFailed ==
    /\ cmdline.mode \in ShowModes \cup {"run", "find"}
    /\ DeveloperRootMissing \/ LoadedMissing # {} \/ LoadedIncomplete # {}

\* C13 (as stated): the process ends with status 0 when locate-only mode
\* found the tool and when a query was answered; with a nonzero status when
\* resolution, the search or execve failed; and never with 0 when it was
\* asked to run a tool.
C13_ExitStatusTellsOutcome ==
    pc = "exit" =>
        /\ (req.caller = "xcrun_find" /\ Searched /\ Hits # {}) => status = 0
        /\ (cmdline.mode \in ShowModes /\ out # <<>>) => status = 0
        /\ ResolutionFailed => status # 0
        /\ (Searched /\ Hits = {}) => status # 0
        /\ ExecCalled => status # 0
        /\ cmdline.mode = "run" => status # 0

\* C14: in every mode the first entry of the search path request_command
\* builds is <developer root>/usr/bin; it is the first one tested, and a
\* tool that is executable there is the one located, whatever the SDK and
\* toolchain directories hold.
C14_DeveloperRootFirst ==
    /\ pc = "do_search" =>
          /\ branches # {}
          /\ EntrySeq # <<>> /\ EntrySeq[1] = developer_dir \o "/usr/bin"
    /\ Searched =>
          /\ EntrySeq[1] = developer_dir \o "/usr/bin"
          /\ probed[1] = developer_dir \o "/usr/bin/" \o req.name
          /\ (developer_dir \o "/usr/bin/" \o req.name) \in fs.exes
                => (cmd = developer_dir \o "/usr/bin/" \o req.name /\ Len(probed) = 1)

\* the tool lies in the developer root's usr/bin and in a toolchain on the
\* search path: the developer root's is located
C14_Witness ==
    /\ Searched
    /\ Cardinality(Hits) >= 2
    /\ cmd = developer_dir \o "/usr/bin/" \o req.name
    /\ \E i \in 2..Len(EntrySeq) : i \in Hits /\ EntrySeq[i] # EntrySeq[1]

\* the names the command lines and files of the model give SDKs and
\* toolchains
BundleNames == {"a", "b", "f", "zz", "ta", "tb", "tf"}

\* C15: get_sdk_path(name) returns <developer root>/SDKs/<name>.sdk if and
\* only if that is an existing directory, and the invocation ends with a
\* nonzero status otherwise; get_toolchain_path(name) does the same with
\* <developer root>/Toolchains/<name>.toolchain.  Seen from outside: the
\* path queries print exactly that path and end with 0, or print nothing
\* and end with a nonzero status, and execve is called only with both
\* directories there, a tool asked for by the name of an SDK or toolchain
\* that is none is not searched for.
C15_PathIffDirectory ==
    /\ developer_dir # "" =>
          \A n \in BundleNames :
             /\ get_sdk_path(n).exit
                   <=> (developer_dir \o "/SDKs/" \o n \o ".sdk") \notin fs.dirs
             /\ get_sdk_path(n).path = developer_dir \o "/SDKs/" \o n \o ".sdk"
             /\ get_toolchain_path(n).exit
                   <=> (developer_dir \o "/Toolchains/" \o n \o ".toolchain") \notin fs.dirs
             /\ get_toolchain_path(n).path
                   = developer_dir \o "/Toolchains/" \o n \o ".toolchain"
    /\ (pc = "exit" /\ cmdline.mode = "show_sdk_path" /\ LoadedMissing = {}) =>
          IF ActiveSdkPath \in fs.dirs
          THEN out = <<ActiveSdkPath>> /\ status = 0
          ELSE out = <<>> /\ status # 0
    /\ (pc = "exit" /\ cmdline.mode = "show_toolchain_path" /\ LoadedMissing = {}) =>
          IF ActiveToolchainPath \in fs.dirs
          THEN out = <<ActiveToolchainPath>> /\ status = 0
          ELSE out = <<>> /\ status # 0
    /\ ExecCalled => (ActiveSdkPath \in fs.dirs /\ ActiveToolchainPath \in fs.dirs)
    /\ (cmdline.mode \in {"run", "find"} /\ explicit_sdk_mode = 1
         /\ ActiveSdkPath \notin fs.dirs) =>
          (probed = <<>> /\ (pc = "exit" => status # 0))
    /\ (cmdline.mode \in {"run", "find"} /\ explicit_toolchain_mode = 1
         /\ explicit_sdk_mode = 0 /\ ActiveToolchainPath \notin fs.dirs) =>
          (probed = <<>> /\ (pc = "exit" => status # 0))

\* --sdk names a regular file <developer root>/SDKs/f.sdk: the path query
\* has ended with status 1 and printed nothing
C15_Witness ==
    /\ pc = "exit" /\ cmdline.mode = "show_sdk_path"
    /\ current_sdk = "f"
    /\ ActiveSdkPath \in DOMAIN fs.files /\ ActiveSdkPath \notin fs.dirs
    /\ out = <<>> /\ status = 1

\* the name the program was called by, and the position of each alias
ProgramName == Str(basename(cmdline.argv0))
AliasPosition ==
    [xcrun |-> 1, xcrun_log |-> 2, xcrun_verbose |-> 3, xcrun_nocache |-> 4]

\* C16 (as stated): for the name the program is called by,
\* get_multicall_state gives the position of the name among xcrun,
\* xcrun_log, xcrun_verbose, xcrun_nocache and -1 for any other name; each of
\* the four runs xcrun_main, and only another name is handed to
\* request_command as the tool to run.
C16_EveryAliasRunsXcrunMain ==
    (pc # "main" /\ developer_dir # "") =>
        IF ProgramName \in DOMAIN AliasPosition
        THEN /\ get_multicall_state(ProgramName, multicall_tool_names, 4)
                   = AliasPosition[ProgramName]
             /\ req.caller # "main"
        ELSE /\ get_multicall_state(ProgramName, multicall_tool_names, 4) = -1
             /\ req.caller = "main"

\* call_command took the deployment target from the SDK's record
EmitsSdkDeploymentTarget == ExecCalled /\ reads.dt \notin {Unread, NULL}

\* C17 (as stated): when call_command emits the deployment target of the
\* active SDK's record, the platform flag it consults is the one the
\* deployment-target key of the active SDK's own info.ini set, whatever
\* other info.ini was loaded before: the variable is named after that key,
\* and a flag is set only if the file has such a key.
C17_PlatformKindIsActiveSdks ==
    EmitsSdkDeploymentTarget =>
        /\ ChildVars \cap DeploymentVars \subseteq {ActiveDeploymentVar}
        /\ macosx_deployment_target_set = 1
              => ActiveDeploymentVar = "MACOSX_DEPLOYMENT_TARGET"
        /\ ios_deployment_target_set = 1
              => ActiveDeploymentVar = "IPHONEOS_DEPLOYMENT_TARGET"

\* C18: when the program is called by a name that is no alias,
\* request_command either replaces the process image or returns -1 (or a
\* callee ends the process with exit(1)); it never returns another value,
\* finding mode is never on, and the process never ends with status 0.
C18_DispatchReturnsMinusOne ==
    req.caller = "main" =>
        /\ finding_mode = 0
        /\ pc \in {"request_command", "do_search", "call_command", "execve",
                   "exec", "return", "exit"}
        /\ pc = "return" => rc = -1
        /\ pc = "exit" => (status # 0 /\ ~child.started)
        /\ pc = "exec" => child.started

\* called as clang: the tool was found, execve was called and failed, and
\* request_command has returned -1
C18_Witness ==
    /\ req.caller = "main" /\ req.name = "clang"
    /\ pc = "return" /\ rc = -1
    /\ ExecCalled /\ ~child.started

====
